---- MODULE Spec2Model ----
(***************************************************************************)
(* Model of src/app.py: the freight-invoice extractor behind a Streamlit   *)
(* page.  A file name is a sequence of one-character strings.  A document  *)
(* text is a sequence of lexemes (maximal runs of non-blank characters,    *)
(* separated by blanks), each lexeme again a sequence of one-character     *)
(* strings, so that upper-casing, comma stripping, float conversion and    *)
(* the unit tests of the code are computed character by character.         *)
(* A value that Python holds as None is the empty sequence, a value v that *)
(* is present is the one-element sequence <<v>>.                            *)
(***************************************************************************)
EXTENDS Integers, Sequences, FiniteSets, TLC

VARIABLES
  uploads,   \* the files in the uploader, each [name, size, data]
  too_big,   \* the oversize flag of the last script run
  errors,    \* names of the files reported as larger than MAX_MB
  pc,        \* "idle": waiting for the button; "loop": in the batch loop; "done"
  i,         \* the loop's position in uploads (1-based)
  now,       \* the clock read by datetime.now()
  parsed,    \* the files handed to parse_invoice_pdf_bytes so far in this run
  rows,      \* the records collected by the loop
  warnings,  \* names of the files warned about by the loop
  outcome,   \* "none", "error" (No data extracted) or "success"
  count,     \* the number shown in the success message
  sheet      \* the rows of the workbook behind the download button

vars == <<uploads, too_big, errors, pc, i, now, parsed, rows, warnings, outcome, count, sheet>>

None == <<>>
Some(v) == <<v>>

\* ------------------------------------------------------------ characters
LowerLetters ==
  <<"a","b","c","d","e","f","g","h","i","j","k","l","m",
    "n","o","p","q","r","s","t","u","v","w","x","y","z">>

UpperLetters ==
  <<"A","B","C","D","E","F","G","H","I","J","K","L","M",
    "N","O","P","Q","R","S","T","U","V","W","X","Y","Z">>

Digits == <<"0","1","2","3","4","5","6","7","8","9">>

Range(s) == {s[k] : k \in 1..Len(s)}
IndexIn(c, s) == CHOOSE k \in 1..Len(s) : s[k] = c

DigitChars == Range(Digits)
LetterChars == Range(UpperLetters) \cup Range(LowerLetters)

IsDigit(c) == c \in DigitChars
IsUpperLetter(c) == c \in Range(UpperLetters)
IsLetter(c) == c \in LetterChars
IsWordChar(c) == IsLetter(c) \/ IsDigit(c) \/ c = "_"
DigitVal == [c \in DigitChars |-> IndexIn(c, Digits) - 1]

\* str.upper() and str.lower(), one character at a time
UpChar == [c \in Range(LowerLetters) |-> UpperLetters[IndexIn(c, LowerLetters)]]
LowChar == [c \in Range(UpperLetters) |-> LowerLetters[IndexIn(c, UpperLetters)]]
Upper(s) == [k \in 1..Len(s) |-> IF s[k] \in DOMAIN UpChar THEN UpChar[s[k]] ELSE s[k]]
Lower(s) == [k \in 1..Len(s) |-> IF s[k] \in DOMAIN LowChar THEN LowChar[s[k]] ELSE s[k]]

\* s[a..b] (1-based, inclusive), empty when a > b
Sub(s, a, b) == IF a > b THEN <<>> ELSE SubSeq(s, a, b)
StartsWith(s, p) == Len(s) >= Len(p) /\ Sub(s, 1, Len(p)) = p

\* the end of the maximal run of characters of the set P that starts at a
\* (a - 1 when s[a] is not in P): what a greedy [P]+ consumes
RunEnd(s, a, P) ==
  CHOOSE b \in (a - 1)..Len(s) :
    /\ \A k \in a..b : s[k] \in P
    /\ (b = Len(s) \/ s[b + 1] \notin P)

\* ------------------------------------------------------------ extract_invoice_id
\* [A-Z]? after a digit run ending at j: one more character when it is a letter
OptLetterEnd(s, j) == IF j + 1 <= Len(s) /\ IsUpperLetter(s[j + 1]) THEN j + 1 ELSE j

\* re.search(r"(SY\d+[A-Z]?)", s): the start positions at which the pattern matches
SYStarts(s) ==
  {a \in 1..Len(s) : /\ a + 2 <= Len(s)
                     /\ s[a] = "S" /\ s[a + 1] = "Y" /\ IsDigit(s[a + 2])}

\* re.search(r"(\d+[A-Z]?)", s)
DigitStarts(s) == {a \in 1..Len(s) : IsDigit(s[a])}

Min(S) == CHOOSE a \in S : \A b \in S : a <= b
Max(S) == CHOOSE a \in S : \A b \in S : a >= b

\* os.path.splitext(p)[0]: cut at the last dot unless only dots precede it in
\* the last path component
splitext_root(p) ==
  LET seps == {k \in 1..Len(p) : p[k] = "/"}
      dots == {k \in 1..Len(p) : p[k] = "."}
      sepIndex == IF seps = {} THEN 0 ELSE Max(seps)
      dotIndex == IF dots = {} THEN 0 ELSE Max(dots)
  IN IF dotIndex > sepIndex /\ \E k \in (sepIndex + 1)..(dotIndex - 1) : p[k] # "."
       THEN Sub(p, 1, dotIndex - 1)
       ELSE p

\* extract_invoice_id with the digit pattern tried before the SY pattern
extract_invoice_id_digits_first(filename) ==
  LET name == Upper(filename)
  IN IF DigitStarts(name) # {}
       THEN LET a == Min(DigitStarts(name))
            IN Sub(name, a, OptLetterEnd(name, RunEnd(name, a, DigitChars)))
     ELSE IF SYStarts(name) # {}
       THEN LET a == Min(SYStarts(name))
            IN Sub(name, a, OptLetterEnd(name, RunEnd(name, a + 2, DigitChars)))
     ELSE splitext_root(name)

extract_invoice_id(filename) ==
  LET name == Upper(filename)
  IN IF SYStarts(name) # {}
       THEN LET a == Min(SYStarts(name))
            IN Sub(name, a, OptLetterEnd(name, RunEnd(name, a + 2, DigitChars)))
     ELSE IF DigitStarts(name) # {}
       THEN LET a == Min(DigitStarts(name))
            IN Sub(name, a, OptLetterEnd(name, RunEnd(name, a, DigitChars)))
     ELSE splitext_root(name)

\* ------------------------------------------------------------ numbers
\* A float is held as the decimal m / 10^e with no trailing zero in the
\* fraction (so 10.00 and 10 are the same value, as they are as floats).
RECURSIVE Norm(_)
Norm(d) ==
  IF d.e > 0 /\ d.m % 10 = 0 THEN Norm([m |-> d.m \div 10, e |-> d.e - 1]) ELSE d

Dec(m, e) == Norm([m |-> m, e |-> e])

RECURSIVE DigitsValue(_)
DigitsValue(s) ==
  IF s = <<>> THEN 0 ELSE 10 * DigitsValue(Sub(s, 1, Len(s) - 1)) + DigitVal[s[Len(s)]]

NotComma(c) == c # ","
NotDot(c) == c # "."

\* float(t) for a text t of digits and dots: a ValueError (raised TRUE) unless t
\* has a digit and at most one dot
float(t) ==
  LET dots == {k \in 1..Len(t) : t[k] = "."}
      ds == SelectSeq(t, NotDot)
  IN IF Cardinality(dots) > 1 \/ ds = <<>>
       THEN [raised |-> TRUE, v |-> None]
       ELSE [raised |-> FALSE,
             v |-> Some(Dec(DigitsValue(ds),
                            IF dots = {} THEN 0 ELSE Len(t) - Max(dots)))]

\* _f = lambda s: float(s.replace(",", "")) if s else None
_f(s) ==
  IF s = <<>> THEN [raised |-> FALSE, v |-> None] ELSE float(SelectSeq(s, NotComma))

LB_TO_KG == Dec(453592, 6)

\* the product of two decimals
Mul(a, b) == Dec(a.m * b.m, a.e + b.e)

\* _to_kg without the .lower() on the unit
_to_kg_cased(v, u) == IF StartsWith(u, <<"k", "g">>) THEN v ELSE Mul(v, LB_TO_KG)

\* _to_kg = lambda v, u: v if u.lower().startswith("kg") else v * 0.453592
_to_kg(v, u) == IF StartsWith(Lower(u), <<"k", "g">>) THEN v ELSE Mul(v, LB_TO_KG)

\* ------------------------------------------------------------ lexemes
\* A text is a sequence of lexemes.  A lexeme made of newlines only stands
\* for that many line breaks; every other lexeme is a run of non-blank
\* characters, and two such neighbours are one blank apart.  The patterns
\* are matched lexeme by lexeme: a label, an amount, a unit or a code that
\* the pattern lets follow after \s* or \s+ is the next lexeme.
IsWS(tok) == tok # <<>> /\ \A k \in 1..Len(tok) : tok[k] = "\n"
NotWS(tok) == ~IsWS(tok)
Words(text) == SelectSeq(text, NotWS)

EndsWith(s, p) == Len(s) >= Len(p) /\ Sub(s, Len(s) - Len(p) + 1, Len(s)) = p

\* the optional [:\-]? that closes a label
StripSep(tok) ==
  IF tok # <<>> /\ tok[Len(tok)] \in {":", "-"} THEN Sub(tok, 1, Len(tok) - 1) ELSE tok

\* a label that opens a pattern may end a longer lexeme (re.search is not
\* anchored); a label after \s+ is the whole lexeme.  re.I: compared in upper case.
OpensWith(tok, spellings) ==
  LET u == Upper(StripSep(tok)) IN \E sp \in spellings : EndsWith(u, sp)
IsLabel(tok, spellings) == Upper(StripSep(tok)) \in spellings

AmountChars == DigitChars \cup {",", "."}

\* ([\d,.]+) at the head of a lexeme: the leading run of amount characters
AmountRun(tok) == Sub(tok, 1, RunEnd(tok, 1, AmountChars))
\* ([\d,.]+) followed by \s*: the whole lexeme is the amount
IsAmount(tok) == tok # <<>> /\ AmountRun(tok) = tok
\* (\d+) at the head of a lexeme
DigitRun(tok) == Sub(tok, 1, RunEnd(tok, 1, DigitChars))
IsLetters3(tok) == Len(tok) = 3 /\ \A k \in 1..3 : IsLetter(tok[k])

L_PIECES == {<<"P","I","E","C","E","S">>}
L_VOLUME == {<<"V","O","L","U","M","E">>}
L_SUBTOTAL == {<<"S","U","B","T","O","T","A","L">>, <<"S","U","B","-","T","O","T","A","L">>}
L_CHW == {<<"C","H","W">>, <<"C","H",".","W">>}
\* G\.?\s*W\.?\s*K?\.? written as one lexeme
L_GW ==
  {<<"G">> \o d1 \o <<"W">> \o d2 \o k \o d3 :
     d1 \in {<<>>, <<".">>}, d2 \in {<<>>, <<".">>}, k \in {<<>>, <<"K">>}, d3 \in {<<>>, <<".">>}}
U_KG == <<"K","G">>
U_KGS == <<"K","G","S">>

\* the leftmost position of a set of match positions, as re.search returns it
Leftmost(S) == IF S = {} THEN None ELSE Some(Min(S))

\* ROW_PIECES_GW_VOL_PAT: Pieces n G.W. w KGS Volume v
ROW_PIECES_GW_VOL_PAT(w) ==
  Leftmost({p \in 1..(Len(w) - 6) :
     /\ OpensWith(w[p], L_PIECES)
     /\ w[p + 1] # <<>> /\ DigitRun(w[p + 1]) = w[p + 1]
     /\ IsLabel(w[p + 2], L_GW)
     /\ IsAmount(w[p + 3])
     /\ Upper(w[p + 4]) \in {U_KG, U_KGS}
     /\ IsLabel(w[p + 5], L_VOLUME)
     /\ AmountRun(w[p + 6]) # <<>>})

\* ROW_GW_VOL_PAT: G.W. w KGS Volume v
ROW_GW_VOL_PAT(w) ==
  Leftmost({p \in 1..(Len(w) - 4) :
     /\ OpensWith(w[p], L_GW)
     /\ IsAmount(w[p + 1])
     /\ Upper(w[p + 2]) \in {U_KG, U_KGS}
     /\ IsLabel(w[p + 3], L_VOLUME)
     /\ AmountRun(w[p + 4]) # <<>>})

\* PIECES_PAT: Pieces n
PIECES_PAT(w) ==
  Leftmost({p \in 1..(Len(w) - 1) :
     OpensWith(w[p], L_PIECES) /\ DigitRun(w[p + 1]) # <<>>})

\* GW_PAT: G.W. w KG
GW_PAT(w) ==
  Leftmost({p \in 1..(Len(w) - 2) :
     /\ OpensWith(w[p], L_GW)
     /\ IsAmount(w[p + 1])
     /\ StartsWith(Upper(w[p + 2]), U_KG)})

\* VOL_PAT: Volume v
VOL_PAT(w) ==
  Leftmost({p \in 1..(Len(w) - 1) :
     OpensWith(w[p], L_VOLUME) /\ AmountRun(w[p + 1]) # <<>>})

\* (KG|KGS?|LB|M3|CBM): the first alternative that heads the lexeme
UnitAlternatives == <<U_KG, U_KGS, <<"L","B">>, <<"M","3">>, <<"C","B","M">>>>
UnitMatches(tok) == {a \in 1..Len(UnitAlternatives) : StartsWith(Upper(tok), UnitAlternatives[a])}
UnitOf(tok) == Sub(tok, 1, Len(UnitAlternatives[Min(UnitMatches(tok))]))

\* CHARGEABLE_PAT: CH.W v unit
CHARGEABLE_PAT(w) ==
  Leftmost({p \in 1..(Len(w) - 2) :
     /\ OpensWith(w[p], L_CHW)
     /\ IsAmount(w[p + 1])
     /\ UnitMatches(w[p + 2]) # {}})

\* SUBTOTAL_PAT: Sub-Total [code] amount; the position, and whether group 1 took part
SubtotalWithCode(w, p) ==
  /\ p + 2 <= Len(w)
  /\ OpensWith(w[p], L_SUBTOTAL)
  /\ IsLetters3(w[p + 1])
  /\ AmountRun(w[p + 2]) # <<>>

SubtotalBare(w, p) ==
  /\ p + 1 <= Len(w)
  /\ OpensWith(w[p], L_SUBTOTAL)
  /\ AmountRun(w[p + 1]) # <<>>

SUBTOTAL_PAT(w) ==
  Leftmost({p \in 1..Len(w) : SubtotalWithCode(w, p) \/ SubtotalBare(w, p)})

CurrencyCodes ==
  {<<"C","A","D">>, <<"U","S","D">>, <<"E","U","R">>, <<"G","B","P">>, <<"A","U","D">>}

\* \b(CAD|USD|EUR|GBP|AUD)\b inside one lexeme: the offsets at which a code stands
\* with no word character on either side
CodeOffsets(tok) ==
  {a \in 1..(Len(tok) - 2) :
     /\ Upper(Sub(tok, a, a + 2)) \in CurrencyCodes
     /\ (a = 1 \/ ~IsWordChar(tok[a - 1]))
     /\ (a + 2 = Len(tok) \/ ~IsWordChar(tok[a + 3]))}

\* CURRENCY_ANY.search(text).group(1): the first code of the first lexeme that has one
CURRENCY_ANY(w) ==
  LET ps == {p \in 1..Len(w) : CodeOffsets(w[p]) # {}}
  IN IF ps = {} THEN None
     ELSE LET tok == w[Min(ps)]
              a == Min(CodeOffsets(tok))
          IN Some(Sub(tok, a, a + 2))

\* lexemes a..b written out with one blank between neighbours
RECURSIVE JoinSp(_)
JoinSp(ws) ==
  IF ws = <<>> THEN <<>>
  ELSE IF Len(ws) = 1 THEN ws[1]
  ELSE ws[1] \o <<" ">> \o JoinSp(Tail(ws))

\* AIR\s*FREIGHT / (?:SEA|OCEAN)\s*FREIGHT as one lexeme or as two; the number
\* of lexemes the label takes at p, 0 when it is not there
W_FREIGHT == <<"F","R","E","I","G","H","T">>
W_AIR == {<<"A","I","R">>}
W_SEA == {<<"S","E","A">>, <<"O","C","E","A","N">>}

FreightLabelLen(w, p, modes) ==
  IF \E md \in modes : EndsWith(Upper(w[p]), md \o W_FREIGHT) THEN 1
  ELSE IF /\ p + 1 <= Len(w)
          /\ \E md \in modes : EndsWith(Upper(w[p]), md)
          /\ Upper(w[p + 1]) = W_FREIGHT THEN 2
  ELSE 0

Qualifiers ==
  {<<"R","A","T","E">>, <<"C","H","A","R","G","E">>, <<"C","H","A","R","G","E","S">>,
   <<"C","O","S","T">>, <<"C","O","S","T","S">>}

\* ([\d,]+\.\d{2}) at the head of a lexeme: empty when it does not match
RateRun(tok) ==
  LET r == RunEnd(tok, 1, DigitChars \cup {","})
  IN IF r >= 1 /\ r + 3 <= Len(tok) /\ tok[r + 1] = "."
        /\ IsDigit(tok[r + 2]) /\ IsDigit(tok[r + 3])
       THEN Sub(tok, 1, r + 3)
       ELSE <<>>

\* after the label: (RATE|CHARGES?|COSTS?)? ([A-Z]{3})? amount; the index of the
\* amount lexeme, 0 when the pattern does not match at p
FreightAmountIndex(w, p, modes) ==
  LET n == FreightLabelLen(w, p, modes)
      a == IF n > 0 /\ p + n <= Len(w) /\ Upper(w[p + n]) \in Qualifiers
             THEN p + n + 1 ELSE p + n
  IN IF n = 0 THEN 0
     ELSE IF a + 1 <= Len(w) /\ IsLetters3(w[a]) /\ RateRun(w[a + 1]) # <<>> THEN a + 1
     ELSE IF a <= Len(w) /\ RateRun(w[a]) # <<>> THEN a
     ELSE 0

\* AIR_FRT_PAT / SEA_FRT_PAT: group 1 of the leftmost match
FRT_PAT(w, modes) ==
  LET ps == {p \in 1..Len(w) : FreightAmountIndex(w, p, modes) # 0}
  IN IF ps = {} THEN None
     ELSE Some(RateRun(w[FreightAmountIndex(w, Min(ps), modes)]))

AIR_FRT_PAT(w) == FRT_PAT(w, W_AIR)
SEA_FRT_PAT(w) == FRT_PAT(w, W_SEA)

\* \b(?:INVOICE\s*)?DATE at the end of a lexeme
W_DATE == <<"D","A","T","E">>
W_INVOICEDATE == <<"I","N","V","O","I","C","E","D","A","T","E">>
BoundaryBefore(tok, n) == Len(tok) = n \/ ~IsWordChar(tok[Len(tok) - n])
IsDateLabel(tok) ==
  \/ EndsWith(Upper(tok), W_DATE) /\ BoundaryBefore(tok, 4)
  \/ EndsWith(Upper(tok), W_INVOICEDATE) /\ BoundaryBefore(tok, 11)

\* (\d{1,2}\s*[A-Za-z]{3}\s*\d{2,4}) at the head of s: the text it takes, empty
\* when it does not match
DateRun(s) ==
  LET d1 == RunEnd(s, 1, DigitChars)
      b1 == RunEnd(s, d1 + 1, {" "})
      b2 == RunEnd(s, b1 + 4, {" "})
      d2 == RunEnd(s, b2 + 1, DigitChars)
  IN IF /\ d1 \in {1, 2}
        /\ b1 + 3 <= Len(s)
        /\ \A k \in (b1 + 1)..(b1 + 3) : IsLetter(s[k])
        /\ d2 - b2 >= 2
       THEN Sub(s, 1, IF d2 - b2 > 4 THEN b2 + 4 ELSE d2)
       ELSE <<>>

DateAt(w, p) == DateRun(JoinSp(Sub(w, p + 1, IF p + 3 <= Len(w) THEN p + 3 ELSE Len(w))))

\* INVOICE_DATE_PAT: group 1 of the leftmost match
INVOICE_DATE_PAT(w) ==
  LET ps == {p \in 1..(Len(w) - 1) : IsDateLabel(w[p]) /\ DateAt(w, p) # <<>>}
  IN IF ps = {} THEN None ELSE Some(DateAt(w, Min(ps)))

\* ---- SHIPPER_PAT, on the text with its line breaks
RECURSIVE NewlinesIn(_)
NewlinesIn(ts) == IF ts = <<>> THEN 0 ELSE Len(ts[1]) + NewlinesIn(Tail(ts))

\* the end of the run of line-break lexemes that starts at a (a - 1: none)
WSRunEnd(text, a) ==
  CHOOSE b \in (a - 1)..Len(text) :
    /\ \A k \in a..b : IsWS(text[k])
    /\ (b = Len(text) \/ NotWS(text[b + 1]))
\* the end of the run of other lexemes that starts at a
LineEnd(text, a) ==
  CHOOSE b \in (a - 1)..Len(text) :
    /\ \A k \in a..b : NotWS(text[k])
    /\ (b = Len(text) \/ IsWS(text[b + 1]))

HeaderChars == LetterChars \cup {" ", "&", "/"}

\* \n[A-Z][A-Z &/]{3,30}: with the line starting at lexeme h (re.I)
HeaderAt(text, h) ==
  /\ h <= Len(text) /\ NotWS(text[h])
  /\ LET s == JoinSp(Sub(text, h, LineEnd(text, h)))
         r == RunEnd(s, 2, HeaderChars)
     IN /\ s # <<>> /\ IsLetter(s[1])
        /\ r - 1 >= 3 /\ r - 1 <= 30
        /\ r + 1 <= Len(s) /\ s[r + 1] = ":"

\* (?:\n{2,}|\n[A-Z][A-Z &/]{3,30}:) can start in the run of line breaks a..b
Terminates(text, a, b) ==
  LET n == NewlinesIn(Sub(text, a, b))
  IN n >= 2 \/ (n >= 1 /\ HeaderAt(text, b + 1))

W_SHIPPER == {<<"S","H","I","P","P","E","R">>, <<"S","H","I","P","P","E","R",":">>}

\* SHIPPER_PAT at the label lexeme p: None, or the text of group 1 after
\* .strip() and re.sub(r"\s+", " ", ...)
ShipperAt(text, p) ==
  LET c0 == WSRunEnd(text, p + 1) + 1
      ends == {t \in (c0 + 1)..Len(text) :
                 /\ IsWS(text[t]) /\ NotWS(text[t - 1])
                 /\ Terminates(text, t, WSRunEnd(text, t))}
      n0 == NewlinesIn(Sub(text, p + 1, c0 - 1))
  IN IF c0 <= Len(text) /\ ends # {}
       THEN Some(JoinSp(Words(Sub(text, c0, Min(ends) - 1))))
     \* no end after the name: \s* gives back line breaks, (.+?) takes one of them
     ELSE IF n0 >= 3 \/ (n0 >= 2 /\ HeaderAt(text, c0))
       THEN Some(<<>>)
     ELSE None

SHIPPER_PAT(text) ==
  LET ps == {p \in 1..Len(text) :
               /\ NotWS(text[p])
               /\ \E sp \in W_SHIPPER : EndsWith(Upper(text[p]), sp)
               /\ ShipperAt(text, p) # None}
  IN IF ps = {} THEN None ELSE ShipperAt(text, Min(ps))

\* ------------------------------------------------------------ parse_invoice_pdf_bytes
HEADERS ==
  <<"Timestamp", "Filename", "Invoice_Date", "Currency", "Shipper",
    "Weight_KG", "Volume_M3", "Chargeable_KG", "Chargeable_CBM",
    "Pieces", "Subtotal", "Freight_Mode", "Freight_Rate">>

NL == <<"\n">>
USD == <<"U","S","D">>

\* "\n".join(p.extract_text() or "" for p in pdf.pages)
RECURSIVE JoinPages(_)
JoinPages(pages) ==
  IF pages = <<>> THEN <<>>
  ELSE LET first == IF pages[1] = None THEN <<>> ELSE pages[1][1]
       IN IF Len(pages) = 1 THEN first
          ELSE first \o <<NL>> \o JoinPages(Tail(pages))

\* CurrencyOf with the scan for a known code tried first
CurrencyOfAnyFirst(w) ==
  LET m == SUBTOTAL_PAT(w)
  IN IF CURRENCY_ANY(w) # None THEN Upper(CURRENCY_ANY(w)[1])
     ELSE IF m # None /\ SubtotalWithCode(w, m[1]) THEN Upper(w[m[1] + 1])
     ELSE USD

\* Currency: the code of the Sub-Total match, else the first known code, else USD
CurrencyOf(w) ==
  LET m == SUBTOTAL_PAT(w)
  IN IF m # None /\ SubtotalWithCode(w, m[1]) THEN Upper(w[m[1] + 1])
     ELSE IF CURRENCY_ANY(w) # None THEN Upper(CURRENCY_ANY(w)[1])
     ELSE USD

NoValue == [raised |-> FALSE, v |-> None]

\* MeasuresOf with the single-field patterns applied whether or not the value
\* is already set
MeasuresOfOverwriting(w) ==
  LET m3 == ROW_PIECES_GW_VOL_PAT(w)
      m2 == ROW_GW_VOL_PAT(w)
      w2 == IF m2 # None THEN _f(w[m2[1] + 1]) ELSE NoValue
      v2 == IF m2 # None THEN _f(AmountRun(w[m2[1] + 4])) ELSE NoValue
  IN IF m3 # None
       THEN [pieces |-> Some(DigitsValue(w[m3[1] + 1])),
             w_kg |-> _f(w[m3[1] + 3]),
             v_m3 |-> _f(AmountRun(w[m3[1] + 6]))]
       ELSE [pieces |-> IF PIECES_PAT(w) # None
                          THEN Some(DigitsValue(DigitRun(w[PIECES_PAT(w)[1] + 1])))
                          ELSE None,
             w_kg |-> IF ~w2.raised /\ GW_PAT(w) # None
                        THEN _f(w[GW_PAT(w)[1] + 1]) ELSE w2,
             v_m3 |-> IF ~v2.raised /\ VOL_PAT(w) # None
                        THEN _f(AmountRun(w[VOL_PAT(w)[1] + 1])) ELSE v2]

\* pieces, w_kg, v_m3 (each with whether its conversion raised)
MeasuresOf(w) ==
  LET m3 == ROW_PIECES_GW_VOL_PAT(w)
      m2 == ROW_GW_VOL_PAT(w)
      w2 == IF m2 # None THEN _f(w[m2[1] + 1]) ELSE NoValue
      v2 == IF m2 # None THEN _f(AmountRun(w[m2[1] + 4])) ELSE NoValue
  IN IF m3 # None
       THEN [pieces |-> Some(DigitsValue(w[m3[1] + 1])),
             w_kg |-> _f(w[m3[1] + 3]),
             v_m3 |-> _f(AmountRun(w[m3[1] + 6]))]
       ELSE [pieces |-> IF PIECES_PAT(w) # None
                          THEN Some(DigitsValue(DigitRun(w[PIECES_PAT(w)[1] + 1])))
                          ELSE None,
             w_kg |-> IF w2.v = None /\ ~w2.raised /\ GW_PAT(w) # None
                        THEN _f(w[GW_PAT(w)[1] + 1]) ELSE w2,
             v_m3 |-> IF v2.v = None /\ ~v2.raised /\ VOL_PAT(w) # None
                        THEN _f(AmountRun(w[VOL_PAT(w)[1] + 1])) ELSE v2]

\* ChargeableOf with the value also stored as volume in the mass case
ChargeableOfBoth(w) ==
  LET m == CHARGEABLE_PAT(w)
      val == _f(w[m[1] + 1])
      unit == UnitOf(w[m[1] + 2])
  IN IF m = None THEN [raised |-> FALSE, c_kg |-> None, c_cbm |-> None]
     ELSE IF val.raised THEN [raised |-> TRUE, c_kg |-> None, c_cbm |-> None]
     ELSE IF StartsWith(Lower(unit), <<"k","g">>) \/ StartsWith(Lower(unit), <<"l","b">>)
       THEN [raised |-> FALSE, c_kg |-> Some(_to_kg(val.v[1], unit)), c_cbm |-> val.v]
       ELSE [raised |-> FALSE, c_kg |-> None, c_cbm |-> val.v]

\* c_kg, c_cbm
ChargeableOf(w) ==
  LET m == CHARGEABLE_PAT(w)
      val == _f(w[m[1] + 1])
      unit == UnitOf(w[m[1] + 2])
  IN IF m = None THEN [raised |-> FALSE, c_kg |-> None, c_cbm |-> None]
     ELSE IF val.raised THEN [raised |-> TRUE, c_kg |-> None, c_cbm |-> None]
     ELSE IF StartsWith(Lower(unit), <<"k","g">>) \/ StartsWith(Lower(unit), <<"l","b">>)
       THEN [raised |-> FALSE, c_kg |-> Some(_to_kg(val.v[1], unit)), c_cbm |-> None]
       ELSE [raised |-> FALSE, c_kg |-> None, c_cbm |-> val.v]

SubtotalOf(w) ==
  LET m == SUBTOTAL_PAT(w)
  IN IF m = None THEN NoValue
     ELSE _f(AmountRun(w[m[1] + (IF SubtotalWithCode(w, m[1]) THEN 2 ELSE 1)]))

\* f_mode, f_rate
FreightOf(w) ==
  IF AIR_FRT_PAT(w) # None
    THEN [f_mode |-> Some("Air"), f_rate |-> _f(AIR_FRT_PAT(w)[1])]
  ELSE IF SEA_FRT_PAT(w) # None
    THEN [f_mode |-> Some("Sea"), f_rate |-> _f(SEA_FRT_PAT(w)[1])]
  ELSE [f_mode |-> None, f_rate |-> NoValue]

\* Record with a column left out when Pieces was not found
RecordSparse(ts, filename, inv_date, currency, shipper, ms, ch, subtotal, fr) ==
  << <<"Timestamp", Some(ts)>>,
     <<"Filename", Some(filename)>>,
     <<"Invoice_Date", inv_date>>,
     <<"Currency", Some(currency)>>,
     <<"Shipper", shipper>>,
     <<"Weight_KG", ms.w_kg.v>>,
     <<"Volume_M3", ms.v_m3.v>>,
     <<"Chargeable_KG", ch.c_kg>>,
     <<"Chargeable_CBM", ch.c_cbm>> >>
  \o (IF ms.pieces = None THEN <<>> ELSE << <<"Pieces", ms.pieces>> >>)
  \o << <<"Subtotal", subtotal.v>>,
        <<"Freight_Mode", fr.f_mode>>,
        <<"Freight_Rate", fr.f_rate.v>> >>

\* the dict literal of the return statement, in the order it is written
Record(ts, filename, inv_date, currency, shipper, ms, ch, subtotal, fr) ==
  << <<"Timestamp", Some(ts)>>,
     <<"Filename", Some(filename)>>,
     <<"Invoice_Date", inv_date>>,
     <<"Currency", Some(currency)>>,
     <<"Shipper", shipper>>,
     <<"Weight_KG", ms.w_kg.v>>,
     <<"Volume_M3", ms.v_m3.v>>,
     <<"Chargeable_KG", ch.c_kg>>,
     <<"Chargeable_CBM", ch.c_cbm>>,
     <<"Pieces", ms.pieces>>,
     <<"Subtotal", subtotal.v>>,
     <<"Freight_Mode", fr.f_mode>>,
     <<"Freight_Rate", fr.f_rate.v>> >>

\* the text of a readable document
TextOf(data) == JoinPages(data.pages)

\* None when pdfplumber cannot open the bytes or any statement of the try
\* block raises, else the record
parse_invoice_pdf_bytes(data, filename, ts) ==
  IF ~data.readable THEN None
  ELSE LET text == TextOf(data)
           w == Words(text)
           d == INVOICE_DATE_PAT(w)
           inv_date == IF d = None THEN None ELSE Some(Upper(d[1]))
           ms == MeasuresOf(w)
           ch == ChargeableOf(w)
           subtotal == SubtotalOf(w)
           fr == FreightOf(w)
       IN IF \/ ms.w_kg.raised \/ ms.v_m3.raised \/ ch.raised
             \/ subtotal.raised \/ fr.f_rate.raised
            THEN None
            ELSE Some(Record(ts, filename, inv_date, CurrencyOf(w), SHIPPER_PAT(text),
                             ms, ch, subtotal, fr))

\* a record's column names in order, and the value of one column
Keys(row) == [k \in 1..Len(row) |-> row[k][1]]
Get(row, col) == row[CHOOSE k \in 1..Len(row) : row[k][1] = col][2]

\* ------------------------------------------------------------ inputs
\* phrases and single lexemes from which the texts of the check are built
P_Row3 == <<<<"P","i","e","c","e","s">>, <<"7">>, <<"G",".","W",".">>, <<"1","0",".","0","0">>, <<"K","G","S">>, <<"V","o","l","u","m","e">>, <<"2",".","5","0">>>>
P_Row2 == <<<<"g",".","w",".","k",".",":">>, <<"5">>, <<"K","G">>, <<"V","o","l","u","m","e",":">>, <<"1",",","2","0","0",".","5","0">>>>
P_Pieces == <<<<"P","i","e","c","e","s",":">>, <<"3">>>>
P_Weight == <<<<"G","W">>, <<"8">>, <<"k","g","s">>>>
P_BadWeight == <<<<"G",".","W",".">>, <<"1",".","2",".","3">>, <<"K","G">>>>
P_ChargeLb == <<<<"C","H",".","W">>, <<"1","0",".","0","0">>, <<"L","B">>>>
P_ChargeCbm == <<<<"C","H",".","W",":">>, <<"2",".","5","0">>, <<"C","B","M">>>>
P_ChargeKgs == <<<<"c","h","w">>, <<"5">>, <<"K","g","s">>>>
P_BadCharge == <<<<"C","H",".","W">>, <<",">>, <<"M","3">>>>
P_SubBare == <<<<"S","u","b","-","T","o","t","a","l">>, <<"5">>, <<"c","a","d">>>>
P_SubCode == <<<<"S","u","b","T","o","t","a","l",":">>, <<"e","u","r">>, <<"1",",","2","0","0",".","5","0">>>>
P_Air == <<<<"A","I","R">>, <<"F","R","E","I","G","H","T">>, <<"R","A","T","E">>, <<"U","S","D">>, <<"1","0",".","0","0">>>>
P_Sea == <<<<"O","C","E","A","N","F","R","E","I","G","H","T">>, <<"2",".","5","0">>>>
P_Head == <<<<"I","n","v","o","i","c","e">>, <<"D","a","t","e">>, <<"1","2">>, <<"J","a","n">>, <<"2","0","2","4">>, <<"S","H","I","P","P","E","R",":">>, <<"A","c","m","e">>, <<"L","t","d">>, <<"\n","\n">>>>
S_Volume == <<<<"V","o","l","u","m","e">>>>
S_SubTotal == <<<<"S","u","b","-","T","o","t","a","l">>>>
S_Seven == <<<<"7">>>>
S_Bad == <<<<"1",".","2",".","3">>>>
S_Net == <<<<"N","e","t">>>>
S_Gbp == <<<<"(","G","B","P",")">>>>

Segments ==
  {P_Row3, P_Row2, P_Pieces, P_Weight, P_BadWeight, P_ChargeLb, P_ChargeCbm,
   P_ChargeKgs, P_BadCharge, P_SubBare, P_SubCode, P_Air, P_Sea, P_Head,
   S_Volume, S_SubTotal, S_Seven, S_Bad, S_Net, S_Gbp}
N_Sy == <<"S","Y","1","2","A",".","p","d","f">>
N_Digits == <<"i","n","v","7","b",".","p","d","f">>
N_Stem == <<"s","c","a","n",".","p","d","f">>

MaxSegs == 2
MaxNameLen == 4
MaxFiles == 3
MaxClock == 1

RECURSIVE Flatten(_)
Flatten(ss) == IF ss = <<>> THEN <<>> ELSE ss[1] \o Flatten(Tail(ss))

SeqsUpTo(S, n) == UNION {[1..k -> S] : k \in 0..n}

\* the texts: up to MaxSegs segments one after the other
Texts == {Flatten(ss) : ss \in SeqsUpTo(Segments, MaxSegs)}

NameChars == {"S", "Y", "y", "a", "7", "."}
Names == SeqsUpTo(NameChars, MaxNameLen) \ {<<>>}

\* MAX_MB = 25, compared as f.size > MAX_MB * 1024 * 1024
MAX_MB == 25
MaxBytes == MAX_MB * 1024 * 1024

Unreadable == [readable |-> FALSE, pages |-> <<>>]
OnePage(text) == [readable |-> TRUE, pages |-> <<Some(text)>>]
\* a scanned page has no text layer: extract_text() gives None
TwoPages == [readable |-> TRUE, pages |-> <<Some(P_Head \o P_ChargeLb), None, Some(P_Row3 \o P_SubCode)>>]
Scanned == [readable |-> TRUE, pages |-> <<None>>]

File(name, size, data) == [name |-> name, size |-> size, data |-> data]

\* the files of the batch runs: good, unreadable, raising, blank, oversized
BatchFiles ==
  {File(N_Sy, 1, TwoPages),
   File(N_Digits, 1, Unreadable),
   File(N_Stem, MaxBytes, OnePage(P_BadWeight)),
   File(N_Digits, MaxBytes, Scanned),
   File(N_Stem, MaxBytes + 1, OnePage(P_Row2))}

BatchUploads == SeqsUpTo(BatchFiles, MaxFiles) \ {<<>>}
IdUploads == {<<File(n, 1, d)>> : n \in Names, d \in {Scanned, OnePage(<<N_Sy>> \o P_Pieces)}}
ParseUploads == {<<File(N_Stem, 1, OnePage(t))>> : t \in Texts}

\* ------------------------------------------------------------ the page
\* Oversized with the flag decided by the last file alone
OversizedLastOnly(files) ==
  IF files[Len(files)].size > MaxBytes THEN <<files[Len(files)].name>> ELSE <<>>

\* the names of the files over the ceiling, in upload order (one st.error each)
Oversized(files) ==
  LET Big(f) == f.size > MaxBytes
  IN [k \in 1..Len(SelectSeq(files, Big)) |-> SelectSeq(files, Big)[k].name]

\* `if row:` -- a dict is true unless it is None or empty
Truthy(row) == row # None /\ row[1] # <<>>

\* df = df[HEADERS]; ws.append([r[h] for h in HEADERS]): the cells of one record,
\* a column the record lacks left empty
Cells(row) ==
  [h \in 1..Len(HEADERS) |->
     IF \E k \in 1..Len(row) : row[k][1] = HEADERS[h] THEN Get(row, HEADERS[h]) ELSE None]

\* ws.append(HEADERS), then one row per record
Workbook(rs) == <<HEADERS>> \o [k \in 1..Len(rs) |-> Cells(rs[k])]

Blank ==
  /\ too_big = FALSE /\ errors = <<>> /\ pc = "idle" /\ i = 0
  /\ parsed = <<>> /\ rows = <<>> /\ warnings = <<>>
  /\ outcome = "none" /\ count = 0 /\ sheet = <<>>

Init == uploads = <<>> /\ now = 0 /\ Blank

\* the user fills the uploader with one of the upload sets in `inputs`; the
\* script runs with the button not pressed
Upload(inputs) ==
  /\ pc = "idle" /\ uploads = <<>>
  /\ \E files \in inputs :
       /\ files # <<>>
       /\ uploads' = files
       /\ errors' = Oversized(files)
       /\ too_big' = (Oversized(files) # <<>>)
  /\ UNCHANGED <<pc, i, now, parsed, rows, warnings, outcome, count, sheet>>

\* the user empties the uploader; the script runs and shows nothing
Clear ==
  /\ pc \in {"idle", "done"} /\ uploads # <<>>
  /\ uploads' = <<>>
  /\ too_big' = FALSE /\ errors' = <<>> /\ pc' = "idle" /\ i' = 0
  /\ parsed' = <<>> /\ rows' = <<>> /\ warnings' = <<>>
  /\ outcome' = "none" /\ count' = 0 /\ sheet' = <<>>
  /\ UNCHANGED now

\* the button (disabled when not uploads or too_big) is pressed and the script
\* enters `if extract_btn and uploads and not too_big:`
ClickExtract ==
  /\ pc \in {"idle", "done"}
  /\ uploads # <<>> /\ ~too_big
  /\ pc' = "loop" /\ i' = 1
  /\ parsed' = <<>> /\ rows' = <<>> /\ warnings' = <<>>
  /\ outcome' = "none" /\ count' = 0 /\ sheet' = <<>>
  /\ UNCHANGED <<uploads, too_big, errors, now>>

\* the clock moves on; only the reading taken by the next parse can show it
Tick ==
  /\ pc = "loop" /\ i <= Len(uploads)
  /\ now < MaxClock
  /\ now' = now + 1
  /\ UNCHANGED <<uploads, too_big, errors, pc, i, parsed, rows, warnings, outcome, count, sheet>>

\* ProcessFile with a failed document ending the loop
ProcessFileAborting ==
  /\ pc = "loop" /\ i <= Len(uploads)
  /\ LET f == uploads[i]
         invoice_id == extract_invoice_id(f.name)
         row == parse_invoice_pdf_bytes(f.data, invoice_id, now)
     IN /\ parsed' = Append(parsed, [name |-> f.name, size |-> f.size])
        /\ IF Truthy(row)
             THEN rows' = Append(rows, row[1]) /\ UNCHANGED warnings /\ i' = i + 1
             ELSE warnings' = Append(warnings, f.name) /\ UNCHANGED rows
                  /\ i' = Len(uploads) + 1
  /\ UNCHANGED <<uploads, too_big, errors, pc, now, outcome, count, sheet>>

\* one pass of `for i, f in enumerate(uploads, start=1):`
ProcessFile ==
  /\ pc = "loop" /\ i <= Len(uploads)
  /\ LET f == uploads[i]
         invoice_id == extract_invoice_id(f.name)
         row == parse_invoice_pdf_bytes(f.data, invoice_id, now)
     IN /\ parsed' = Append(parsed, [name |-> f.name, size |-> f.size])
        /\ IF Truthy(row)
             THEN rows' = Append(rows, row[1]) /\ UNCHANGED warnings
             ELSE warnings' = Append(warnings, f.name) /\ UNCHANGED rows
  /\ i' = i + 1
  /\ UNCHANGED <<uploads, too_big, errors, pc, now, outcome, count, sheet>>

\* Finish with the success message counting the uploads
FinishCountingUploads ==
  /\ pc = "loop" /\ i > Len(uploads)
  /\ pc' = "done"
  /\ IF rows = <<>>
       THEN outcome' = "error" /\ UNCHANGED <<count, sheet>>
       ELSE /\ outcome' = "success"
            /\ count' = Len(uploads)
            /\ sheet' = Workbook(rows)
  /\ UNCHANGED <<uploads, too_big, errors, i, now, parsed, rows, warnings>>

\* after the loop: `if not rows:` the error, else the workbook, the success
\* message and the download button
Finish ==
  /\ pc = "loop" /\ i > Len(uploads)
  /\ pc' = "done"
  /\ IF rows = <<>>
       THEN outcome' = "error" /\ UNCHANGED <<count, sheet>>
       ELSE /\ outcome' = "success"
            /\ count' = Len(rows)
            /\ sheet' = Workbook(rows)
  /\ UNCHANGED <<uploads, too_big, errors, i, now, parsed, rows, warnings>>

Run == Clear \/ ClickExtract \/ Tick \/ ProcessFile \/ Finish

\* batches of files
Next == Upload(BatchUploads) \/ Run
Spec == Init /\ [][Next]_vars

\* one file, every name
NextId == Upload(IdUploads) \/ Run
SpecId == Init /\ [][NextId]_vars

\* one file, every text
NextParse == Upload(ParseUploads) \/ Run
SpecParse == Init /\ [][NextParse]_vars


\* ------------------------------------------------------------ properties
\* a record without its Timestamp column
Untimed(row) == Tail(row)

\* whether the parse of a file returns a record (the clock plays no part)
Succeeds(f) == parse_invoice_pdf_bytes(f.data, extract_invoice_id(f.name), 0) # None

\* the records (untimed) of the files that parse, and the names of those that
\* do not, both in the order of the files
RECURSIVE RecordsOf(_)
RecordsOf(files) ==
  IF files = <<>> THEN <<>>
  ELSE (IF Succeeds(files[1])
          THEN <<Untimed(parse_invoice_pdf_bytes(files[1].data,
                                                  extract_invoice_id(files[1].name), 0)[1])>>
          ELSE <<>>) \o RecordsOf(Tail(files))

RECURSIVE FailuresOf(_)
FailuresOf(files) ==
  IF files = <<>> THEN <<>>
  ELSE (IF Succeeds(files[1]) THEN <<>> ELSE <<files[1].name>>) \o FailuresOf(Tail(files))

\* C1: the loop visits every uploaded document whatever the earlier ones did;
\* after k documents the rows are exactly the records of the parsable ones
\* among them, in upload order, and there is exactly one warning, naming the
\* file, for each of the others; at the end records + warnings = documents.
C1_BatchVisitsAll ==
  pc \in {"loop", "done"} =>
    /\ i <= Len(uploads) + 1
    /\ Len(parsed) = i - 1
    /\ \A k \in 1..Len(parsed) : parsed[k].name = uploads[k].name
    /\ [k \in 1..Len(rows) |-> Untimed(rows[k])] = RecordsOf(Sub(uploads, 1, i - 1))
    /\ warnings = FailuresOf(Sub(uploads, 1, i - 1))
    /\ (pc = "done" => /\ Len(parsed) = Len(uploads)
                       /\ Len(rows) + Len(warnings) = Len(uploads))

\* three documents, the second unreadable: two records and one warning
C1_Witness ==
  /\ pc = "done" /\ Len(uploads) = 3
  /\ ~uploads[2].data.readable /\ uploads[1].data.readable /\ uploads[3].data.readable
  /\ Len(rows) = 2 /\ warnings = <<uploads[2].name>>
  /\ Get(rows[1], "Filename") = Some(extract_invoice_id(uploads[1].name))
  /\ Get(rows[2], "Filename") = Some(extract_invoice_id(uploads[3].name))

\* C7: a run ends in exactly one of two outcomes, decided by whether rows is
\* empty: no record, the error and no workbook; else one success message whose
\* count is the number of records, and the workbook: the header row, then one
\* row per record in batch order.  Before the end nothing is shown.
C7_TerminalOutcome ==
  /\ pc # "done" => outcome = "none" /\ sheet = <<>> /\ count = 0
  /\ pc = "done" /\ rows = <<>> => outcome = "error" /\ sheet = <<>> /\ count = 0
  /\ pc = "done" /\ rows # <<>> =>
       /\ outcome = "success"
       /\ count = Len(rows)
       /\ Len(sheet) = Len(rows) + 1
       /\ sheet[1] = HEADERS
       /\ \A k \in 1..Len(rows) : \A h \in 1..Len(HEADERS) :
            sheet[k + 1][h] = Get(rows[k], HEADERS[h])

\* fewer records than documents, and the count is that of the records
C7_Witness ==
  /\ pc = "done" /\ outcome = "success"
  /\ Len(rows) = 2 /\ Len(uploads) = 3 /\ count = 2 /\ Len(sheet) = 3

\* C9: no file over 25 MB is ever handed to the parser: the loop runs only on a
\* non-empty upload set without any oversized file, so one oversized file
\* keeps every file of its set from being parsed.
C9_NoOversizedParsed ==
  /\ \A k \in 1..Len(parsed) : parsed[k].size <= MaxBytes
  /\ pc \in {"loop", "done"} =>
       uploads # <<>> /\ \A k \in 1..Len(uploads) : uploads[k].size <= MaxBytes
  /\ (\E k \in 1..Len(uploads) : uploads[k].size > MaxBytes) =>
       pc = "idle" /\ parsed = <<>> /\ too_big

\* an oversized file uploaded after a file of exactly 25 MB: nothing is parsed
C9_Witness ==
  /\ Len(uploads) = 2
  /\ uploads[2].size = MaxBytes /\ uploads[1].size > MaxBytes
  /\ too_big /\ errors = <<uploads[1].name>> /\ parsed = <<>>

\* ---- one uploaded file, after its run
OneFileDone == pc = "done" /\ Len(uploads) = 1 /\ uploads[1].data.readable
TheWords == Words(TextOf(uploads[1].data))
Val(s) == _f(s).v

\* C2: every record has exactly the 13 columns of HEADERS, in that order,
\* whichever patterns matched; a field whose pattern found nothing is there
\* with the value None.
C2_SchemaComplete ==
  /\ \A k \in 1..Len(rows) : Keys(rows[k]) = HEADERS
  /\ OneFileDone /\ rows # <<>> =>
       /\ INVOICE_DATE_PAT(TheWords) = None => Get(rows[1], "Invoice_Date") = None
       /\ SHIPPER_PAT(TextOf(uploads[1].data)) = None => Get(rows[1], "Shipper") = None
       /\ CHARGEABLE_PAT(TheWords) = None =>
            Get(rows[1], "Chargeable_KG") = None /\ Get(rows[1], "Chargeable_CBM") = None
       /\ SUBTOTAL_PAT(TheWords) = None => Get(rows[1], "Subtotal") = None
       /\ AIR_FRT_PAT(TheWords) = None /\ SEA_FRT_PAT(TheWords) = None =>
            Get(rows[1], "Freight_Mode") = None /\ Get(rows[1], "Freight_Rate") = None

\* a record in which some fields were found and others were not
C2_Witness ==
  /\ OneFileDone /\ rows # <<>>
  /\ Get(rows[1], "Pieces") = None /\ Get(rows[1], "Shipper") = None
  /\ Get(rows[1], "Subtotal") # None /\ Get(rows[1], "Chargeable_KG") # None

\* some amount captured for a numeric field is no well-formed decimal
AnyAmountMalformed(w) ==
  \/ MeasuresOf(w).w_kg.raised \/ MeasuresOf(w).v_m3.raised
  \/ ChargeableOf(w).raised \/ SubtotalOf(w).raised \/ FreightOf(w).f_rate.raised

\* C3: a numeric field whose label is there but whose captured amount is
\* malformed is absent from the record, and the record is still emitted: the
\* document is not reported as failed.
C3_MalformedAmountKeepsRecord ==
  OneFileDone /\ AnyAmountMalformed(TheWords) =>
    /\ Len(rows) = 1 /\ warnings = <<>>
    /\ Keys(rows[1]) = HEADERS

\* C4 as stated: in every record exactly one of Chargeable_KG and
\* Chargeable_CBM is populated.
C4_ExactlyOneChargeable ==
  \A k \in 1..Len(rows) :
    (Get(rows[k], "Chargeable_KG") # None) # (Get(rows[k], "Chargeable_CBM") # None)

\* C4 as amended: in every record at most one of Chargeable_KG and
\* Chargeable_CBM is populated; exactly one when the chargeable pattern
\* matches the text, neither when it does not.
C4_AtMostOneChargeable ==
  /\ \A k \in 1..Len(rows) :
       ~(Get(rows[k], "Chargeable_KG") # None /\ Get(rows[k], "Chargeable_CBM") # None)
  /\ OneFileDone /\ rows # <<>> =>
       ((Get(rows[1], "Chargeable_KG") # None \/ Get(rows[1], "Chargeable_CBM") # None)
          <=> CHARGEABLE_PAT(TheWords) # None)

\* a record with the chargeable volume and no chargeable weight
C4_Witness ==
  /\ OneFileDone /\ rows # <<>>
  /\ Get(rows[1], "Chargeable_CBM") # None /\ Get(rows[1], "Chargeable_KG") = None

\* the positions at which the Sub-Total pattern matches, with a code and at all
SubtotalCodePositions(w) == {p \in 1..Len(w) : SubtotalWithCode(w, p)}
SubtotalPositions(w) == {p \in 1..Len(w) : SubtotalWithCode(w, p) \/ SubtotalBare(w, p)}

\* C5 as stated: Currency is never absent; if the text has a code next to a
\* Sub-Total label Currency is that code in upper case; otherwise the first
\* known code anywhere in the text; otherwise USD.
C5_CurrencyChainAnySubtotal ==
  OneFileDone /\ rows # <<>> =>
    LET w == TheWords
        cur == Get(rows[1], "Currency")
    IN /\ cur # None
       /\ IF SubtotalCodePositions(w) # {}
            THEN \E p \in SubtotalCodePositions(w) : cur[1] = Upper(w[p + 1])
          ELSE IF CURRENCY_ANY(w) # None THEN cur[1] = Upper(CURRENCY_ANY(w)[1])
          ELSE cur[1] = USD

\* C5 as amended: Currency is never absent; if the leftmost match of the
\* Sub-Total pattern (label, optional three letters, amount) has the three
\* letters, Currency is those letters in upper case; otherwise the first
\* known code anywhere in the text; otherwise USD.
C5_CurrencyChainLeftmost ==
  OneFileDone /\ rows # <<>> =>
    LET w == TheWords
        cur == Get(rows[1], "Currency")
        subs == SubtotalPositions(w)
    IN /\ cur # None
       /\ IF subs # {} /\ SubtotalWithCode(w, Min(subs))
            THEN cur[1] = Upper(w[Min(subs) + 1])
          ELSE IF CURRENCY_ANY(w) # None THEN cur[1] = Upper(CURRENCY_ANY(w)[1])
          ELSE cur[1] = USD

\* a known code stands before the Sub-Total line, whose own code wins
C5_Witness ==
  /\ OneFileDone /\ rows # <<>>
  /\ Get(rows[1], "Currency") = Some(<<"E","U","R">>)
  /\ CURRENCY_ANY(TheWords) = Some(<<"G","B","P">>)

\* C6: when the chargeable pattern matches value v with unit u: a unit that
\* starts with kg (any case) gives Chargeable_KG = v; LB gives
\* Chargeable_KG = v * 0.453592 (10.00 LB gives 4.53592); both leave
\* Chargeable_CBM absent; M3 or CBM gives Chargeable_CBM = v and leaves
\* Chargeable_KG absent.
C6_ChargeableUnits ==
  OneFileDone /\ rows # <<>> /\ CHARGEABLE_PAT(TheWords) # None =>
    LET w == TheWords
        p == CHARGEABLE_PAT(w)[1]
        v == Val(w[p + 1])
        u == Upper(w[p + 2])
        kg == Get(rows[1], "Chargeable_KG")
        cbm == Get(rows[1], "Chargeable_CBM")
    IN /\ v # None
       /\ IF StartsWith(u, <<"K","G">>) THEN kg = v /\ cbm = None
          ELSE IF StartsWith(u, <<"L","B">>)
            THEN kg = Some(Dec(v[1].m * 453592, v[1].e + 6)) /\ cbm = None
          ELSE cbm = v /\ kg = None
       /\ (w[p + 1] = <<"1","0",".","0","0">> /\ StartsWith(u, <<"L","B">>)
             => kg = Some([m |-> 453592, e |-> 5]))
       /\ (w[p + 1] = <<"2",".","5","0">> /\ StartsWith(u, <<"C","B","M">>)
             => cbm = Some([m |-> 25, e |-> 1]))
       /\ (w[p + 1] = <<"5">> /\ StartsWith(u, <<"K","G">>)
             => kg = Some([m |-> 5, e |-> 0]))

\* 10.00 LB has become 4.53592 kg
C6_Witness ==
  /\ OneFileDone /\ rows # <<>>
  /\ Get(rows[1], "Chargeable_KG") = Some([m |-> 453592, e |-> 5])
  /\ Get(rows[1], "Chargeable_CBM") = None

\* C10: if the pieces+weight+volume pattern matches, Pieces, Weight_KG and
\* Volume_M3 all come from its leftmost match; otherwise weight and volume
\* come from the leftmost match of the weight+volume pattern if there is one,
\* and each of the three still unset comes from its own pattern, or stays
\* absent when that does not match.
C10_LayeredMeasures ==
  OneFileDone /\ rows # <<>> =>
    LET w == TheWords
        pieces == Get(rows[1], "Pieces")
        w_kg == Get(rows[1], "Weight_KG")
        v_m3 == Get(rows[1], "Volume_M3")
        m3 == ROW_PIECES_GW_VOL_PAT(w)
        m2 == ROW_GW_VOL_PAT(w)
        m1p == PIECES_PAT(w)
        m1w == GW_PAT(w)
        m1v == VOL_PAT(w)
    IN IF m3 # None
         THEN /\ pieces = Some(DigitsValue(w[m3[1] + 1]))
              /\ w_kg = Val(w[m3[1] + 3])
              /\ v_m3 = Val(AmountRun(w[m3[1] + 6]))
         ELSE /\ pieces = IF m1p = None THEN None
                          ELSE Some(DigitsValue(DigitRun(w[m1p[1] + 1])))
              /\ w_kg = IF m2 # None THEN Val(w[m2[1] + 1])
                        ELSE IF m1w # None THEN Val(w[m1w[1] + 1]) ELSE None
              /\ v_m3 = IF m2 # None THEN Val(AmountRun(w[m2[1] + 4]))
                        ELSE IF m1v # None THEN Val(AmountRun(w[m1v[1] + 1])) ELSE None

\* a weight line stands before the weight+volume row, whose weight is kept,
\* and the pieces come from their own line
C10_Witness ==
  /\ OneFileDone /\ rows # <<>>
  /\ ROW_PIECES_GW_VOL_PAT(TheWords) = None
  /\ ROW_GW_VOL_PAT(TheWords) # None /\ GW_PAT(TheWords) # None
  /\ GW_PAT(TheWords)[1] < ROW_GW_VOL_PAT(TheWords)[1]
  /\ Get(rows[1], "Weight_KG") = Some([m |-> 5, e |-> 0])
  /\ Get(rows[1], "Volume_M3") = Some([m |-> 12005, e |-> 1])

\* the identifier chain of C8 on the name n, with `letters` the letters that
\* may close a code: id is the leftmost SY code, else the leftmost digit run
\* with its optional letter, else the stem
IsCodeFrom(n, id, a, d0, letters) ==
  \E d \in d0..Len(n) :
    /\ \A k \in d0..d : n[k] \in DigitChars
    /\ (d = Len(n) \/ n[d + 1] \notin DigitChars)
    /\ id = Sub(n, a, IF d < Len(n) /\ n[d + 1] \in letters THEN d + 1 ELSE d)

StemOf(n) ==
  LET dots == {k \in 1..Len(n) : n[k] = "."}
  IN IF dots # {} /\ \E k \in 1..(Max(dots) - 1) : n[k] # "."
       THEN Sub(n, 1, Max(dots) - 1) ELSE n

IsIdOf(n, id, letters) ==
  LET sy == {a \in 1..(Len(n) - 2) : n[a] = "S" /\ n[a + 1] = "Y" /\ n[a + 2] \in DigitChars}
      dg == {a \in 1..Len(n) : n[a] \in DigitChars}
  IN IF sy # {} THEN IsCodeFrom(n, id, Min(sy), Min(sy) + 2, letters)
     ELSE IF dg # {} THEN IsCodeFrom(n, id, Min(dg), Min(dg), letters)
     ELSE id = StemOf(n)

\* C8 as stated: the Filename column is the identifier derived from the file
\* name as uploaded: the leftmost SY code, else the leftmost digit run with an
\* optional letter, else the name without its extension.
C8_IdOfNameAsUploaded ==
  OneFileDone /\ rows # <<>> =>
    /\ Get(rows[1], "Filename") # None
    /\ IsIdOf(uploads[1].name, Get(rows[1], "Filename")[1], LetterChars)

\* C8 as amended: the same chain, applied to the file name in upper case (so
\* sy12a gives SY12A, and the fallback is the stem in upper case).
C8_IdOfUpperName ==
  OneFileDone /\ rows # <<>> =>
    /\ Get(rows[1], "Filename") # None
    /\ IsIdOf(Upper(uploads[1].name), Get(rows[1], "Filename")[1], Range(UpperLetters))

\* a digit stands before the SY code, which is returned all the same
C8_Witness ==
  /\ OneFileDone /\ rows # <<>>
  /\ uploads[1].name = <<"7", "S", "Y", "7">>
  /\ Get(rows[1], "Filename") = Some(<<"S", "Y", "7">>)

====
